---- MODULE Spec2Model ----
(* The deletion pipeline of s3-file-remover (src/main.go): main starts the  *)
(* worker goroutines, runs listAndDeleteObjects on its own goroutine, which *)
(* pages through the bucket listing, filters by last-modified and sends     *)
(* batches of keys on the channel objectsToDelete; the workers receive the  *)
(* batches and call DeleteObjects; main closes the channel, waits for the   *)
(* workers and logs the summary.                                            *)
EXTENDS Integers, Sequences, FiniteSets, Bags, TLC

\* ---------------------------------------------------------------- bounds
MaxWorkers == 2      \* -workers is drawn from 0..MaxWorkers
MaxKeys == 2         \* -max-keys is drawn from -1..MaxKeys
MaxPages == 2        \* the listing has at most MaxPages pages
MaxObjects == 3      \* the listing has at most MaxObjects objects
MaxDate == 1         \* the cutoff is drawn from 1..MaxDate

WorkerIds == 1..MaxWorkers
\* an object is last modified before, exactly at, or after the cutoff
Times(cutoff) == {cutoff - 1, cutoff, cutoff + 1}
\* the pages the store may return: up to n objects, any timestamps
PageContents(cutoff, n) ==
    UNION {[1..k -> Times(cutoff)] : k \in 0..n}

VARIABLES
    workers,           \* flag -workers
    maxKeysPerDelete,  \* flag -max-keys
    targetDate,        \* parseDate(-date)
    limit,             \* the most objects the bucket listing holds in this run
    pc,                \* where the main goroutine is
    spawned,           \* main's loop variable i: workers started so far
    wg,                \* the WaitGroup's counter
    objectsToDelete,   \* the channel's buffer: the batches as they were sent
    slices,            \* the channel's buffer: the slice headers [arr, len] in it
    arrays,            \* the backing arrays the scanner's appends allocated
    bufferArr,         \* the backing array of objectsBuffer, 0 for none
    closed,            \* how many times close(objectsToDelete) ran
    totalDeleted,      \* the workers' shared counter
    morePages,         \* paginator.HasMorePages()
    pagesFetched,      \* NextPage calls that returned
    page,              \* what is left of page.Contents in the range loop
    objectsBuffer,     \* listAndDeleteObjects' in-progress batch
    totalObjects,      \* listAndDeleteObjects' count of matched objects
    wpc,               \* where each worker goroutine is
    objects,           \* each worker's loop variable: the batch it holds
    listed,            \* history: LastModified of every listed object, by key
    sent,              \* history: the batches sent on the channel, in order
    submitted,         \* history: bag of batches passed to DeleteObjects
    returned,          \* history: bag of [objects, err] of returned calls
    stdout,            \* history: "Deleted %d objects" lines printed
    err,               \* main's err: listAndDeleteObjects returned an error
    summary            \* the final log line's numbers, <<>> until logged

vars == <<workers, maxKeysPerDelete, targetDate, limit, pc, spawned, wg,
          objectsToDelete, slices, arrays, bufferArr, closed, totalDeleted, morePages, pagesFetched,
          page, objectsBuffer, totalObjects, wpc, objects, listed, sent,
          submitted, returned, stdout, err, summary>>

config == <<workers, maxKeysPerDelete, targetDate, limit>>
scanVars == <<morePages, pagesFetched, page, objectsBuffer, bufferArr, arrays,
              totalObjects, listed, err>>
workerVars == <<wpc, objects, totalDeleted, submitted, returned, stdout>>

\* ------------------------------------------------------------ pure parts

\* mutant of Before: the comparison admits the cutoff itself
BeforeOrEqual(t, u) == t <= u

\* time.Time.Before
Before(t, u) == t < u

\* mutant of BufferFull: the buffer is flushed one key early
BufferFullEarly(buffer, maxKeys) == Len(buffer) >= maxKeys - 1

\* mutant of BufferFull: a limit of 0 or less is taken as no limit
BufferFullGuarded(buffer, maxKeys) == maxKeys > 0 /\ Len(buffer) >= maxKeys

\* mutant of BufferFull: the flush test is off by one
BufferOverfull(buffer, maxKeys) == Len(buffer) > maxKeys

\* the flush test of the range loop
BufferFull(buffer, maxKeys) == Len(buffer) >= maxKeys

\* mutant of BufferPending: the final flush test is off by one
BufferPendingOffByOne(buffer) == Len(buffer) > 1

\* the test of the final flush
BufferPending(buffer) == Len(buffer) > 0

\* mutant of CanSend: the channel is made one slot too small
CanSendOffByOne(ch, cap) == Len(ch) < cap - 1

\* mutant of CanSend: the channel buffers one batch more than its capacity
CanSendOneMore(ch, cap) == Len(ch) <= cap

\* mutant of CanSend: a send on the unbuffered channel needs no receiver
CanSendNoReceiver(ch, cap) == Len(ch) < cap \/ cap = 0

\* mutant of CanSend: the channel is unbounded
CanSendUnbounded(ch, cap) == TRUE

\* a send on the buffered channel can complete
CanSend(ch, cap) == Len(ch) < cap

\* mutant of AddInt64: a plain store, the other workers' increments are lost
AddInt64Overwrite(counter, delta) == delta

\* atomic.AddInt64
AddInt64(counter, delta) == counter + delta

\* mutant of Receive: the batch is read but left in the buffer
ReceivePeek(ch) == [value |-> Head(ch), rest |-> ch]

\* a receive from the channel: the value received and what the buffer keeps
Receive(ch) == [value |-> Head(ch), rest |-> Tail(ch)]

\* mutant of NextIteration: the worker returns on a failed call
ReturnOnError(failed) == IF failed THEN "exit" ELSE "recv"

\* where a worker goes after DeleteObjects returned: its loop goes on
NextIteration(failed) == "recv"

\* mutant of SpawnMore: the loop runs once too often
SpawnOneMore(i, n) == i <= n

\* main, line 59: the condition of the loop that starts the workers
SpawnMore(i, n) == i < n

\* a slice's backing array has room for one more element
HasRoom(arrs, arr, len) == arr # 0 /\ len < Len(arrs[arr])

\* the array append allocates when there is no room: the old contents, the
\* new key, and the capacity doubled (1 for the first element)
Grown(contents, key) ==
    contents \o <<key>> \o [i \in 1..(Len(contents) - 1) |-> 0]

\* what a slice header shows of its backing array
Deref(arrs, s) == SubSeq(arrs[s.arr], 1, s.len)

\* mutant of EmptySlice: objectsBuffer[:0], which keeps the backing array
ResliceToZero(arr) == arr

\* listAndDeleteObjects, line 145: the backing array of the new, empty slice
EmptySlice(arr) == 0

\* where the range loop goes after an object: on, or back to the page loop
AfterObject(rest) == IF rest = <<>> THEN "pages" ELSE "range"

\* the page as the range loop sees it: keys are the listing positions
Contents(times, firstKey) ==
    [k \in 1..Len(times) |-> [Key |-> firstKey + k - 1, LastModified |-> times[k]]]

\* -------------------------------------------------------------- initial

\* main before its first statement after flag.Parse and the client's creation
Start ==
    /\ pc = "spawn"
    /\ spawned = 0
    /\ wg = 0
    /\ objectsToDelete = <<>>
    /\ slices = <<>>
    /\ arrays = <<>>
    /\ bufferArr = 0
    /\ closed = 0
    /\ totalDeleted = 0
    /\ morePages = TRUE
    /\ pagesFetched = 0
    /\ page = <<>>
    /\ objectsBuffer = <<>>
    /\ totalObjects = 0
    /\ wpc = [w \in WorkerIds |-> "none"]
    /\ objects = [w \in WorkerIds |-> <<>>]
    /\ listed = <<>>
    /\ sent = <<>>
    /\ submitted = EmptyBag
    /\ returned = EmptyBag
    /\ stdout = 0
    /\ err = FALSE
    /\ summary = <<>>

Init ==
    /\ workers \in 0..MaxWorkers
    /\ maxKeysPerDelete \in (0 - 1)..MaxKeys
    /\ targetDate \in 1..MaxDate
    /\ limit = MaxObjects
    /\ Start

\* ----------------------------------------------------------------- main

\* main, lines 59-62: wg.Add(1); go worker(...)
MainSpawn ==
    /\ pc = "spawn"
    /\ SpawnMore(spawned, workers)
    /\ spawned' = spawned + 1
    /\ wg' = wg + 1
    /\ wpc' = [wpc EXCEPT ![spawned + 1] = "recv"]
    /\ UNCHANGED <<config, pc, objectsToDelete, slices, closed, totalDeleted, scanVars,
                   objects, sent, submitted, returned, stdout, summary>>

\* main, line 65: the call of listAndDeleteObjects, up to its page loop
MainScan ==
    /\ pc = "spawn"
    /\ ~SpawnMore(spawned, workers)
    /\ pc' = "pages"
    /\ objectsBuffer' = <<>>
    /\ totalObjects' = 0
    /\ UNCHANGED <<config, spawned, wg, objectsToDelete, slices, closed, morePages,
                   pagesFetched, page, listed, err, workerVars, sent, summary,
                   bufferArr, arrays>>

\* listAndDeleteObjects, lines 132-137: a page is fetched
NextPage ==
    /\ pc = "pages"
    /\ morePages
    /\ \E times \in PageContents(targetDate, limit - Len(listed)), more \in BOOLEAN :
          /\ more => pagesFetched + 1 < MaxPages
          /\ page' = Contents(times, Len(listed) + 1)
          /\ listed' = listed \o times
          /\ morePages' = more
          /\ pc' = AfterObject(times)
    /\ pagesFetched' = pagesFetched + 1
    /\ UNCHANGED <<config, spawned, wg, objectsToDelete, slices, closed, objectsBuffer,
                   bufferArr, arrays, totalObjects, err, workerVars, sent, summary>>

\* mutant of NextPageError: the page loop is left by break, not by return
NextPageErrorBreaks ==
    /\ pc = "pages"
    /\ morePages
    /\ pc' = IF BufferPending(objectsBuffer) THEN "sendLast" ELSE "close"
    /\ err' = TRUE
    /\ UNCHANGED <<config, spawned, wg, objectsToDelete, slices, closed, morePages,
                   pagesFetched, page, objectsBuffer, bufferArr, arrays,
                   totalObjects, listed, workerVars, sent, summary>>

\* listAndDeleteObjects, lines 133-136: the page fetch fails
NextPageError ==
    /\ pc = "pages"
    /\ morePages
    /\ pc' = "fatalf"
    /\ err' = TRUE
    /\ UNCHANGED <<config, spawned, wg, objectsToDelete, slices, closed, morePages,
                   pagesFetched, page, objectsBuffer, bufferArr, arrays,
                   totalObjects, listed, workerVars, sent, summary>>

\* listAndDeleteObjects, line 140: append(objectsBuffer, ...), in place when
\* the backing array has room, else into a new array
AppendKey(key) ==
    /\ objectsBuffer' = Append(objectsBuffer, key)
    /\ IF HasRoom(arrays, bufferArr, Len(objectsBuffer))
       THEN /\ arrays' = [arrays EXCEPT ![bufferArr][Len(objectsBuffer) + 1] = key]
            /\ bufferArr' = bufferArr
       ELSE /\ arrays' = Append(arrays, Grown(objectsBuffer, key))
            /\ bufferArr' = Len(arrays) + 1

\* mutant of ScanObject: totalObjects++ sits inside the flush branch
ScanObjectCountAtFlush ==
    /\ pc = "range"
    /\ LET obj == Head(page)
           rest == Tail(page)
       IN  /\ page' = rest
           /\ IF Before(obj.LastModified, targetDate)
              THEN /\ AppendKey(obj.Key)
                   /\ IF BufferFull(objectsBuffer', maxKeysPerDelete)
                      THEN /\ totalObjects' = totalObjects + 1
                           /\ pc' = "send"
                      ELSE /\ totalObjects' = totalObjects
                           /\ pc' = AfterObject(rest)
              ELSE /\ pc' = AfterObject(rest)
                   /\ UNCHANGED <<objectsBuffer, bufferArr, arrays, totalObjects>>
    /\ UNCHANGED <<config, spawned, wg, objectsToDelete, slices, closed, morePages,
                   pagesFetched, listed, err, workerVars, sent, summary>>

\* listAndDeleteObjects, lines 138-148: one object of the page
ScanObject ==
    /\ pc = "range"
    /\ LET obj == Head(page)
           rest == Tail(page)
       IN  /\ page' = rest
           /\ IF Before(obj.LastModified, targetDate)
              THEN /\ AppendKey(obj.Key)
                   /\ totalObjects' = totalObjects + 1
                   /\ pc' = IF BufferFull(objectsBuffer', maxKeysPerDelete)
                            THEN "send"
                            ELSE AfterObject(rest)
              ELSE /\ pc' = AfterObject(rest)
                   /\ UNCHANGED <<objectsBuffer, bufferArr, arrays, totalObjects>>
    /\ UNCHANGED <<config, spawned, wg, objectsToDelete, slices, closed, morePages,
                   pagesFetched, listed, err, workerVars, sent, summary>>

\* listAndDeleteObjects, lines 144-145: the send of a full buffer completes
SendBatch ==
    /\ pc = "send"
    /\ CanSend(objectsToDelete, workers)
    /\ objectsToDelete' = Append(objectsToDelete, objectsBuffer)
    /\ slices' = Append(slices, [arr |-> bufferArr, len |-> Len(objectsBuffer)])
    /\ sent' = Append(sent, objectsBuffer)
    /\ objectsBuffer' = <<>>
    /\ bufferArr' = EmptySlice(bufferArr)
    /\ pc' = AfterObject(page)
    /\ UNCHANGED <<config, spawned, wg, closed, morePages, pagesFetched, page,
                   arrays, totalObjects, listed, err, workerVars, summary>>

\* listAndDeleteObjects, lines 132 and 151: no page is left
PagesDone ==
    /\ pc = "pages"
    /\ ~morePages
    /\ pc' = IF BufferPending(objectsBuffer) THEN "sendLast" ELSE "close"
    /\ UNCHANGED <<config, spawned, wg, objectsToDelete, slices, closed, scanVars,
                   workerVars, sent, summary>>

\* listAndDeleteObjects, lines 152-155: the last send completes, and it returns
SendLast ==
    /\ pc = "sendLast"
    /\ CanSend(objectsToDelete, workers)
    /\ objectsToDelete' = Append(objectsToDelete, objectsBuffer)
    /\ slices' = Append(slices, [arr |-> bufferArr, len |-> Len(objectsBuffer)])
    /\ sent' = Append(sent, objectsBuffer)
    /\ pc' = "close"
    /\ UNCHANGED <<config, spawned, wg, closed, scanVars, workerVars, summary>>

\* main, lines 66-68: log.Fatalf ends the process, its goroutines with it
MainFatal ==
    /\ pc = "fatalf"
    /\ pc' = "exit1"
    /\ UNCHANGED <<config, spawned, wg, objectsToDelete, slices, closed, scanVars,
                   workerVars, sent, summary>>

\* main, line 70
MainClose ==
    /\ pc = "close"
    /\ closed' = closed + 1
    /\ pc' = "wait"
    /\ UNCHANGED <<config, spawned, wg, objectsToDelete, slices, scanVars, workerVars,
                   sent, summary>>

\* mutant of MainWait: the summary does not wait for the workers
MainNoWait ==
    /\ pc = "wait"
    /\ pc' = "summary"
    /\ UNCHANGED <<config, spawned, wg, objectsToDelete, slices, closed, scanVars,
                   workerVars, sent, summary>>

\* main, line 71: wg.Wait() returns
MainWait ==
    /\ pc = "wait"
    /\ wg = 0
    /\ pc' = "summary"
    /\ UNCHANGED <<config, spawned, wg, objectsToDelete, slices, closed, scanVars,
                   workerVars, sent, summary>>

\* main, lines 73-75
MainSummary ==
    /\ pc = "summary"
    /\ summary' = <<totalDeleted, totalObjects>>
    /\ pc' = "exit0"
    /\ UNCHANGED <<config, spawned, wg, objectsToDelete, slices, closed, scanVars,
                   workerVars, sent>>

\* --------------------------------------------------------------- worker

\* the process is alive: neither log.Fatalf nor main's return has ended it
Running == pc \notin {"exit0", "exit1"}

\* worker, lines 106-107: a batch is received and DeleteObjects is called
WorkerReceive(w) ==
    /\ Running
    /\ wpc[w] = "recv"
    /\ objectsToDelete # <<>>
    /\ objects' = [objects EXCEPT ![w] = Deref(arrays, Receive(slices).value)]
    /\ objectsToDelete' = Receive(objectsToDelete).rest
    /\ slices' = Receive(slices).rest
    /\ submitted' = submitted (+) SetToBag({Deref(arrays, Receive(slices).value)})
    /\ wpc' = [wpc EXCEPT ![w] = "delete"]
    /\ UNCHANGED <<config, pc, spawned, wg, closed, totalDeleted, scanVars,
                   sent, returned, stdout, summary>>

\* worker, lines 115-120: DeleteObjects returns
WorkerDelete(w) ==
    /\ Running
    /\ wpc[w] = "delete"
    /\ \E failed \in BOOLEAN :
          /\ returned' = returned (+) SetToBag({[objects |-> objects[w], err |-> failed]})
          /\ IF failed
             THEN UNCHANGED <<totalDeleted, stdout>>
             ELSE /\ totalDeleted' = AddInt64(totalDeleted, Len(objects[w]))
                  /\ stdout' = stdout + 1
          /\ wpc' = [wpc EXCEPT ![w] = NextIteration(failed)]
    /\ objects' = [objects EXCEPT ![w] = <<>>]
    /\ UNCHANGED <<config, pc, spawned, wg, objectsToDelete, slices, closed, scanVars,
                   sent, submitted, summary>>

\* mutant of WorkerExit: the worker leaves as soon as the channel is empty
WorkerExitEarly(w) ==
    /\ Running
    /\ wpc[w] = "recv"
    /\ objectsToDelete = <<>>
    /\ wpc' = [wpc EXCEPT ![w] = "exit"]
    /\ wg' = wg - 1
    /\ UNCHANGED <<config, pc, spawned, objectsToDelete, slices, closed, totalDeleted,
                   scanVars, objects, sent, submitted, returned, stdout, summary>>

\* worker, lines 104 and 106: the range ends on the closed, empty channel
WorkerExit(w) ==
    /\ Running
    /\ wpc[w] = "recv"
    /\ objectsToDelete = <<>>
    /\ closed > 0
    /\ wpc' = [wpc EXCEPT ![w] = "exit"]
    /\ wg' = wg - 1
    /\ UNCHANGED <<config, pc, spawned, objectsToDelete, slices, closed, totalDeleted,
                   scanVars, objects, sent, submitted, returned, stdout, summary>>

Main ==
    \/ MainSpawn
    \/ MainScan
    \/ NextPage
    \/ NextPageError
    \/ ScanObject
    \/ SendBatch
    \/ PagesDone
    \/ SendLast
    \/ MainFatal
    \/ MainClose
    \/ MainWait
    \/ MainSummary

Worker(w) ==
    \/ WorkerReceive(w)
    \/ WorkerDelete(w)
    \/ WorkerExit(w)

Next ==
    \/ Main
    \/ \E w \in WorkerIds : Worker(w)

Spec == Init /\ [][Next]_vars

\* the runs of Init, and the runs of -workers 2 -max-keys 2 on a bucket of up
\* to two objects more
WideInit ==
    \/ Init
    \/ /\ workers = 2
       /\ maxKeysPerDelete = 2
       /\ targetDate \in 1..MaxDate
       /\ limit = MaxObjects + 2
       /\ Start

WideSpec == WideInit /\ [][Next]_vars

\* the Go scheduler runs every runnable goroutine, and every store call returns
FairSpec == Spec /\ WF_vars(Main) /\ \A w \in WorkerIds : WF_vars(Worker(w))

\* ------------------------------------------------- what the claims speak of

Range(seq) == {seq[i] : i \in DOMAIN seq}

\* the keys of the listed objects
Keys == DOMAIN listed

\* the listed objects last modified strictly before the cutoff
Candidates == {k \in Keys : listed[k] < targetDate}

RECURSIVE Flatten(_)
Flatten(batches) ==
    IF batches = <<>> THEN <<>> ELSE Head(batches) \o Flatten(Tail(batches))

\* the keys sent on the channel, in the order sent
SentKeys == Flatten(sent)

NoDuplicates(seq) == \A i, j \in DOMAIN seq : seq[i] = seq[j] => i = j

\* listAndDeleteObjects returned to main without an error
ScanSucceeded == pc \in {"close", "wait", "summary", "exit0"}

\* the process has ended: main returned, or log.Fatalf exited
Ended == pc \in {"exit0", "exit1"}

RECURSIVE SumOver(_, _)
SumOver(bag, S) ==
    IF S = {} THEN 0
    ELSE LET e == CHOOSE x \in S : TRUE
         IN  bag[e] * Len(e.objects) + SumOver(bag, S \ {e})

RECURSIVE SumCopies(_, _)
SumCopies(bag, S) ==
    IF S = {} THEN 0
    ELSE LET e == CHOOSE x \in S : TRUE
         IN  bag[e] + SumCopies(bag, S \ {e})

\* the keys in the batches whose DeleteObjects call returned an error
FailedSize == SumOver(returned, {e \in BagToSet(returned) : e.err})

\* the keys in the batches whose DeleteObjects call returned no error
DeletedSize == SumOver(returned, {e \in BagToSet(returned) : ~e.err})

\* how many DeleteObjects calls returned for batch b
Returns(b) ==
    CopiesIn([objects |-> b, err |-> TRUE], returned)
        + CopiesIn([objects |-> b, err |-> FALSE], returned)

\* the batches held by workers inside DeleteObjects
InFlight == {objects[w] : w \in {v \in WorkerIds : wpc[v] = "delete"}}

\* ---------------------------------------------------------------- claims

\* C1: when the scan returned without a page failure, a listed object's key is
\* in some batch sent on the channel exactly if its last-modified is strictly
\* before the cutoff; and at no time is a key sent whose object was modified
\* at the cutoff or later.
C1_FilterCorrect ==
    /\ \A k \in Range(SentKeys) : k \in Keys /\ listed[k] < targetDate
    /\ \A k \in Range(SentKeys) : listed[k] # targetDate
    /\ ScanSucceeded =>
          \A k \in Keys : (k \in Range(SentKeys)) <=> (listed[k] < targetDate)

C1_Witness ==
    /\ ScanSucceeded
    /\ \E k \in Keys : listed[k] = targetDate
    /\ \E k \in Keys : listed[k] < targetDate /\ k \in Range(SentKeys)
    /\ \E k \in Keys : listed[k] > targetDate

\* C2: for a maxKeysPerDelete M > 0 every batch sent has between 1 and M
\* keys, no key is sent twice, only candidates are sent, and once the scan
\* has returned without a page failure the batches hold every candidate.
C2_BatchesPartition ==
    maxKeysPerDelete > 0 =>
        /\ \A i \in DOMAIN sent :
              Len(sent[i]) >= 1 /\ Len(sent[i]) <= maxKeysPerDelete
        /\ NoDuplicates(SentKeys)
        /\ Range(SentKeys) \subseteq Candidates
        /\ ScanSucceeded => Range(SentKeys) = Candidates

C2_Witness ==
    /\ maxKeysPerDelete = 2
    /\ ScanSucceeded
    /\ pagesFetched = 2
    /\ Len(sent) = 2
    /\ Len(sent[1]) = 2
    /\ Len(sent[2]) = 1
    /\ Cardinality(Candidates) = 3

\* C3: the totalDeleted of the final summary is totalCandidates less the keys
\* of the batches whose DeleteObjects call failed: equal when none failed,
\* strictly less when one did.
C3_SummaryAccounting ==
    pc = "exit0" =>
        /\ summary[2] = Cardinality(Candidates)
        /\ summary[1] = summary[2] - FailedSize
        /\ (FailedSize = 0) => summary[1] = summary[2]
        /\ (\E e \in BagToSet(returned) : e.err) => summary[1] < summary[2]

C3_Witness ==
    /\ pc = "exit0"
    /\ workers = 2
    /\ \E e \in BagToSet(returned) : e.err
    /\ Cardinality({e \in BagToSet(returned) : ~e.err}) >= 2
    /\ summary[1] = 2
    /\ summary[2] = 3

\* C4: with at least one worker, every store call returning and a fair
\* scheduler, the run ends; it ends by log.Fatalf only after a page fetch
\* failed, and otherwise with the channel closed, every worker exited and the
\* summary logged; with no candidate no batch is sent and the summary
\* reports 0 deleted.
C4_Terminates ==
    /\ (workers >= 1) => <>Ended
    /\ [](pc = "exit1" => err)
    /\ [](pc = "exit0" =>
            /\ ~err
            /\ closed = 1
            /\ objectsToDelete = <<>>
            /\ \A w \in WorkerIds : w <= workers => wpc[w] = "exit"
            /\ summary = <<totalDeleted, totalObjects>>
            /\ (Candidates = {} => sent = <<>> /\ summary = <<0, 0>>))

C4_Witness ==
    /\ pc = "exit0"
    /\ workers = 1
    /\ Candidates = {}
    /\ Len(listed) > 0
    /\ summary = <<0, 0>>

\* C5: in every state totalDeleted is at most the scanner's running count of
\* matched objects.
C5_DeletedAtMostCandidates == totalDeleted <= totalObjects

C5_Witness ==
    /\ totalDeleted > 0
    /\ totalDeleted = totalObjects
    /\ pc = "range"
    /\ \E e \in BagToSet(returned) : ~e.err

\* C6: when a page fetch failed, every batch sent on the channel before the
\* failure has been received by a worker and passed to DeleteObjects by the
\* time the run ends (stated for at least one worker and a positive
\* maxKeysPerDelete).
C6_DispatchedStillDrain ==
    (workers >= 1 /\ maxKeysPerDelete >= 1 /\ pc = "exit1") =>
        \A i \in DOMAIN sent : BagIn(sent[i], submitted)

\* C7: the channel is closed exactly once by the end of the run, whether the
\* scan succeeded or failed with a page-fetch error, never more than once,
\* and only after the scanner is done (stated for at least one worker and a
\* positive maxKeysPerDelete).
C7_ClosedExactlyOnce ==
    (workers >= 1 /\ maxKeysPerDelete >= 1) =>
        /\ closed <= 1
        /\ closed = 1 => pc \in {"wait", "summary", "exit0", "exit1"}
        /\ Ended => closed = 1

\* C8: a failed DeleteObjects call stops nothing: the worker that saw it is
\* back at its receive, the other workers, main and the channel are as they
\* were, and a run whose scan succeeded still ends with every batch sent
\* passed to DeleteObjects and returned.
C8_FailureIsolated ==
    /\ [][\A w \in WorkerIds :
            (/\ wpc[w] = "delete"
             /\ returned' = returned (+) SetToBag({[objects |-> objects[w], err |-> TRUE]}))
            => /\ wpc'[w] = "recv"
               /\ \A v \in WorkerIds \ {w} : wpc'[v] = wpc[v]
               /\ pc' = pc
               /\ wg' = wg
               /\ objectsToDelete' = objectsToDelete
               /\ closed' = closed]_vars
    /\ [](pc = "exit0" => \A i \in DOMAIN sent :
                             BagIn(sent[i], submitted) /\ Returns(sent[i]) = 1)

C8_Witness ==
    /\ workers = 1
    /\ Len(sent) >= 2
    /\ CopiesIn([objects |-> sent[1], err |-> TRUE], returned) = 1
    /\ CopiesIn([objects |-> sent[2], err |-> FALSE], returned) = 1

\* C9: every batch is passed to DeleteObjects at most once, and exactly once
\* by the end of a run whose scan succeeded; the channel holds exactly the
\* batches sent and not yet received, so none is ever put back; and
\* totalDeleted is the keys of the calls that succeeded, a failed call adding 0.
C9_NoRetryNoRequeue ==
    /\ \A b \in BagToSet(submitted) :
          CopiesIn(b, submitted) = 1 /\ b \in Range(sent)
    /\ \A e \in BagToSet(returned) :
          Returns(e.objects) = 1 /\ BagIn(e.objects, submitted)
    /\ objectsToDelete = SubSeq(sent, BagCardinality(submitted) + 1, Len(sent))
    /\ totalDeleted = DeletedSize
    /\ pc = "exit0" =>
          \A i \in DOMAIN sent :
              CopiesIn(sent[i], submitted) = 1 /\ Returns(sent[i]) = 1

C9_Witness ==
    /\ pc = "exit0"
    /\ Len(sent) = 3
    /\ \E e \in BagToSet(returned) : e.err
    /\ \E e \in BagToSet(returned) : ~e.err
    /\ totalDeleted = 1

\* C10: once the scan has returned without a page failure, totalObjects is
\* the number of listed objects last modified before the cutoff and the sum
\* of the lengths of the batches sent, whatever the DeleteObjects calls
\* returned; the summary logs that number.
C10_CandidatesCounted ==
    /\ ScanSucceeded =>
          /\ totalObjects = Cardinality(Candidates)
          /\ totalObjects = Len(SentKeys)
    /\ pc = "exit0" => summary[2] = Cardinality(Candidates)

C10_Witness ==
    /\ ScanSucceeded
    /\ totalObjects = 2
    /\ Len(listed) = 3
    /\ Len(sent) = 2
    /\ \E e \in BagToSet(returned) : e.err
    /\ totalDeleted < totalObjects

\* the workers main started
Started == {w \in WorkerIds : wpc[w] # "none"}

\* the DeleteObjects calls that returned without an error
Succeeded == SumCopies(returned, {e \in BagToSet(returned) : ~e.err})

\* C11: one progress line is printed per DeleteObjects call that returned
\* without an error and none for a failed one; the summary is logged once, in
\* a run whose scan succeeded, when every worker has exited; after it no
\* progress line is printed and totalDeleted does not change.
C11_OutputOrder ==
    /\ [](stdout = Succeeded)
    /\ [](pc = "exit0" => ~err /\ summary # <<>>)
    /\ [](summary # <<>> => pc = "exit0")
    /\ [][summary' # summary =>
            /\ summary = <<>>
            /\ \A w \in Started : wpc[w] = "exit"
            /\ Cardinality(Started) = workers
            /\ BagCardinality(returned) = BagCardinality(submitted)]_vars
    /\ [][summary # <<>> =>
            stdout' = stdout /\ totalDeleted' = totalDeleted /\ summary' = summary]_vars

C11_Witness ==
    /\ pc = "exit0"
    /\ workers = 2
    /\ stdout = 2
    /\ BagCardinality(returned) = 3
    /\ summary = <<2, 3>>

\* a / b rounded up
Ceil(a, b) == (a + b - 1) \div b

\* C12: for a maxKeysPerDelete M > 0 every batch sent but the last has exactly
\* M keys and the last has 1..M, so C candidates make ceil(C / M) batches
\* however the listing is cut into pages; 3 candidates among 5 objects with
\* M = 2 and 2 workers make 2 batches of 2 and 1 keys, totalObjects = 3, and a
\* summary of 3/3 when no DeleteObjects call failed.
C12_BatchShape ==
    maxKeysPerDelete > 0 =>
        /\ \A i \in DOMAIN sent :
              i < Len(sent) => Len(sent[i]) = maxKeysPerDelete
        /\ ~ScanSucceeded =>
              \A i \in DOMAIN sent : Len(sent[i]) = maxKeysPerDelete
        /\ ScanSucceeded =>
              /\ Len(sent) = Ceil(Cardinality(Candidates), maxKeysPerDelete)
              /\ sent # <<>> =>
                    /\ Len(sent[Len(sent)]) >= 1
                    /\ Len(sent[Len(sent)]) <= maxKeysPerDelete
        /\ (/\ ScanSucceeded
            /\ workers = 2
            /\ maxKeysPerDelete = 2
            /\ Len(listed) = 5
            /\ Cardinality(Candidates) = 3) =>
              /\ Len(sent) = 2
              /\ Len(sent[1]) = 2
              /\ Len(sent[2]) = 1
              /\ totalObjects = 3
              /\ (pc = "exit0" /\ FailedSize = 0) => summary = <<3, 3>>

C12_Witness ==
    /\ pc = "exit0"
    /\ workers = 2
    /\ maxKeysPerDelete = 2
    /\ pagesFetched = 2
    /\ Len(listed) = 5
    /\ Cardinality(Candidates) = 3
    /\ listed[1] >= targetDate
    /\ listed[5] < targetDate
    /\ Len(sent) = 2
    /\ summary = <<3, 3>>

\* the workers inside a DeleteObjects call
Deleting == {w \in WorkerIds : wpc[w] = "delete"}

\* C13: once a page fetch has failed the scanner fetches no page, lists no
\* object, sends no batch and leaves its buffer as it is; the error is
\* main's, which goes to log.Fatalf; the keys left in the buffer are in no
\* batch sent and in no DeleteObjects call.
C13_AbortOnPageError ==
    /\ [](err => pc \in {"fatalf", "exit1"})
    /\ [][err' =>
            /\ pagesFetched' = pagesFetched
            /\ listed' = listed
            /\ sent' = sent
            /\ objectsBuffer' = objectsBuffer
            /\ Len(objectsToDelete') <= Len(objectsToDelete)]_vars
    /\ [](err => \A k \in Range(objectsBuffer) :
                    /\ k \notin Range(SentKeys)
                    /\ \A b \in BagToSet(submitted) : k \notin Range(b))

C13_Witness ==
    /\ pc = "exit1"
    /\ err
    /\ objectsBuffer # <<>>
    /\ sent # <<>>
    /\ BagCardinality(returned) = 1

\* C14: a worker exits only when the channel is closed and empty, and the
\* channel of an exited worker stays closed and empty; so when main's wait
\* has returned the channel is empty and no DeleteObjects call is in progress.
C14_ExitOnClosedAndDrained ==
    /\ [][\A w \in WorkerIds :
            (wpc[w] # "exit" /\ wpc'[w] = "exit") =>
                closed > 0 /\ objectsToDelete = <<>>]_vars
    /\ [](\A w \in WorkerIds :
            wpc[w] = "exit" => closed > 0 /\ objectsToDelete = <<>>)
    /\ [](pc \in {"summary", "exit0"} =>
            /\ objectsToDelete = <<>>
            /\ Deleting = {}
            /\ \A w \in Started : wpc[w] = "exit"
            /\ BagCardinality(returned) = BagCardinality(submitted)
            /\ BagCardinality(submitted) = Len(sent))

C14_Witness ==
    /\ pc = "summary"
    /\ workers = 2
    /\ Len(sent) = 2
    /\ \A w \in WorkerIds : w <= 2 => wpc[w] = "exit"

\* C15: main starts exactly `workers` workers; a worker inside DeleteObjects
\* holds one batch that was sent, a worker outside holds none, so the calls
\* in progress are as many as the workers inside one and at most `workers`.
C15_WorkerBound ==
    /\ Cardinality(Started) = spawned
    /\ spawned <= workers
    /\ pc # "spawn" => Cardinality(Started) = workers
    /\ Cardinality(Deleting) <= workers
    /\ BagCardinality(submitted) - BagCardinality(returned) = Cardinality(Deleting)
    /\ \A w \in WorkerIds :
          IF w \in Deleting
          THEN objects[w] \in Range(sent) /\ Returns(objects[w]) = 0
          ELSE objects[w] = <<>>

C15_Witness ==
    /\ workers = 2
    /\ Cardinality(Deleting) = 2
    /\ BagCardinality(returned) = 1

\* C16: the channel never buffers more than `workers` batches; while it holds
\* `workers` batches a pending send does not complete, and the scanner fetches
\* no page, lists no object and changes no buffer; a send completes only into
\* a channel that holds fewer than `workers` batches.
C16_Backpressure ==
    /\ [](Len(objectsToDelete) <= workers)
    /\ [][(pc \in {"send", "sendLast"} /\ Len(objectsToDelete) = workers) =>
            /\ pc' = pc
            /\ sent' = sent
            /\ pagesFetched' = pagesFetched
            /\ listed' = listed
            /\ page' = page
            /\ objectsBuffer' = objectsBuffer
            /\ totalObjects' = totalObjects]_vars
    /\ [][sent' # sent =>
            /\ Len(objectsToDelete) < workers
            /\ Len(sent') = Len(sent) + 1]_vars

C16_Witness ==
    /\ pc = "send"
    /\ workers = 2
    /\ Len(objectsToDelete) = workers
    /\ Deleting = {}

\* the candidate keys in the scanner's buffer while the scan runs
BufferedKeys == IF ScanSucceeded THEN {} ELSE Range(objectsBuffer)

\* the candidate keys in the batches buffered in the channel
ChannelKeys == Range(Flatten(objectsToDelete))

\* the candidate keys in the batches held by workers inside DeleteObjects
HeldKeys == UNION {Range(b) : b \in InFlight}

\* the candidate keys matched whose DeleteObjects call has not returned
Outstanding ==
    Cardinality(BufferedKeys) + Cardinality(ChannelKeys) + Cardinality(HeldKeys)

\* C17: for maxKeysPerDelete > 0 the buffer holds at most maxKeysPerDelete
\* keys, the channel at most workers * maxKeysPerDelete and the workers at
\* most workers * maxKeysPerDelete, so at most (2 * workers + 1) *
\* maxKeysPerDelete matched keys wait for their DeleteObjects call to return;
\* they are the keys counted less the keys whose call returned.
C17_BoundedOutstanding ==
    maxKeysPerDelete > 0 =>
        /\ Cardinality(BufferedKeys) <= maxKeysPerDelete
        /\ Cardinality(ChannelKeys) <= workers * maxKeysPerDelete
        /\ Cardinality(HeldKeys) <= workers * maxKeysPerDelete
        /\ Outstanding <= (2 * workers + 1) * maxKeysPerDelete
        /\ Outstanding = totalObjects - (FailedSize + DeletedSize)

C17_Witness ==
    /\ workers = 1
    /\ maxKeysPerDelete = 1
    /\ pc = "send"
    /\ Outstanding = (2 * workers + 1) * maxKeysPerDelete
    /\ Len(listed) = 3

\* how many batches left the channel
Received == Len(sent) - Len(objectsToDelete)

\* C18: a batch is sent only when the scanner has finished it (the buffer is
\* full, or no page is left); the batches in the channel are the last batches
\* sent, each still holding in memory the keys it was sent with, and no append
\* writes into their arrays; the buffer the scanner goes on with shares no key
\* with a batch sent; a worker receives the oldest batch of the channel and
\* the batches submitted to DeleteObjects are the first batches sent.
C18_CausalHandOff ==
    /\ [][sent' # sent =>
            /\ sent' = Append(sent, objectsBuffer)
            /\ \/ pc = "send" /\ BufferFull(objectsBuffer, maxKeysPerDelete)
               \/ pc = "sendLast" /\ ~morePages /\ page = <<>>
            /\ pc' # "close" => objectsBuffer' = <<>> /\ bufferArr' = 0]_vars
    /\ [](objectsToDelete = SubSeq(sent, Received + 1, Len(sent)))
    /\ [](\A i \in DOMAIN slices : Deref(arrays, slices[i]) = objectsToDelete[i])
    /\ [][\A i \in DOMAIN slices :
            arrays'[slices[i].arr] = arrays[slices[i].arr]]_vars
    /\ [](\A i \in DOMAIN slices : slices[i].arr # bufferArr \/ ScanSucceeded)
    /\ [](~ScanSucceeded => Range(objectsBuffer) \cap Range(SentKeys) = {})
    /\ [][\A w \in WorkerIds :
            (wpc[w] = "recv" /\ wpc'[w] = "delete") =>
                /\ objects'[w] = Head(objectsToDelete)
                /\ objects'[w] = sent[Received + 1]]_vars
    /\ [](BagToSet(submitted) = {sent[i] : i \in 1..Received})
    /\ [](BagCardinality(submitted) = Received)

C18_Witness ==
    /\ Deleting # {}
    /\ objectsToDelete # <<>>
    /\ objectsBuffer # <<>>
    /\ pc = "send"
    /\ Len(arrays) = 3
    /\ BagCardinality(submitted) = 1

\* the scanner is at a send of which the channel has no room
Blocked == pc \in {"send", "sendLast"} /\ ~CanSend(objectsToDelete, workers)

\* C19: with no worker no send completes and DeleteObjects is never called;
\* the scanner that reached a send stays there and nothing changes any more,
\* so no summary is logged in a run with a candidate; every fair run either
\* ends or comes to that send, and the run that ends without a page failure
\* listed no candidate and reports 0 of 0.
C19_NoWorkers ==
    /\ [](workers = 0 =>
            /\ Started = {}
            /\ sent = <<>>
            /\ objectsToDelete = <<>>
            /\ submitted = EmptyBag
            /\ returned = EmptyBag
            /\ totalDeleted = 0
            /\ (pc \in {"send", "sendLast"} => Blocked /\ totalObjects >= 1)
            /\ (totalObjects >= 1 => ~ScanSucceeded /\ summary = <<>>)
            /\ (pc = "exit0" => Candidates = {} /\ summary = <<0, 0>>)
            /\ (pc = "exit1" => err))
    /\ [][~(workers = 0 /\ Blocked)]_vars
    /\ (workers = 0) => <>(Ended \/ Blocked)

C19_Witness ==
    /\ workers = 0
    /\ Blocked
    /\ pc = "send"
    /\ page # <<>>
    /\ pagesFetched = 1
    /\ morePages

\* C20: with maxKeysPerDelete zero or negative the flush test holds for every
\* buffer, so each key is sent as soon as it is appended: every batch sent
\* has one key, the batches sent (with the one being sent) are as many as the
\* keys counted, the buffer is empty when the pages end and the final flush
\* sends nothing.
C20_NonPositiveMaxKeys ==
    maxKeysPerDelete <= 0 =>
        /\ BufferFull(objectsBuffer, maxKeysPerDelete)
        /\ \A i \in DOMAIN sent : Len(sent[i]) = 1
        /\ pc # "sendLast"
        /\ Len(objectsBuffer) = (IF pc = "send" THEN 1 ELSE 0)
        /\ Len(sent) + Len(objectsBuffer) = totalObjects
        /\ ScanSucceeded =>
              /\ Len(sent) = totalObjects
              /\ Len(sent) = Cardinality(Candidates)

C20_Witness ==
    /\ maxKeysPerDelete = 0
    /\ pc = "exit0"
    /\ pagesFetched = 2
    /\ Len(sent) = 3
    /\ totalObjects = 3

====
